---- MODULE Spec2Model ----
(***************************************************************************)
(* EarlyAllocator of arceos/modules/bump_allocator: a double-ended bump    *)
(* allocator.  Bytes are handed out forward from b_pos, pages backward     *)
(* from p_pos.  All fields are usize; the model keeps the machine word     *)
(* (WordBits wide) so that the unchecked +, -, * of the source either      *)
(* panic (overflow checks on, the dev profile) or wrap (overflow checks    *)
(* off, the release profile).                                              *)
(***************************************************************************)
EXTENDS Integers, Naturals, FiniteSets, Sequences, Bags, TLC

\* ---------------------------------------------------------------- bounds
WordBits == 5                 \* width of usize in the model
MaxLive  == 2                 \* at most this many live byte blocks at once
MaxRuns  == 2                 \* at most this many granted page runs
MaxAfterWrap == 1             \* calls followed after a call that wrapped

\* ------------------------------------------------------- program constants
DefaultSIZE == 4              \* the SIZE the allocator is instantiated with

\* ------------------------------------------------------------------ inputs
RECURSIVE Pow2(_)
Pow2(n) == IF n = 0 THEN 1 ELSE 2 * Pow2(n - 1)

InitRegions  == {<<4, 17>>, <<5, 11>>}     \* init(start, size)
LayoutSizes  == {0, 3}                     \* layout.size()
LayoutAligns == {1, 8}                     \* layout.align(), a power of two
NumPages     == {1, 2}                     \* num_pages
PageAligns   == {1, 8}                     \* align_pow2, a power of two

VARIABLES
    overflow_checks,   \* build profile: TRUE = overflow panics, FALSE = wraps
    cfg,               \* the instantiation: word |-> number of usize values,
                       \* page |-> SIZE, after |-> calls followed after a wrap
    script,            \* how many calls of the documented scenario came, in order
    start, end, b_pos, p_pos, count,       \* the fields of EarlyAllocator
    op, arg1, arg2,    \* the last call and its two arguments
    res,               \* its outcome: "none", "ok", "NoMemory", "panic"
    ret,               \* the address it returned (when res = "ok")
    live,              \* bag of byte blocks returned by alloc and not freed
    runs,              \* set of page runs returned by alloc_pages
    wellFormed,        \* every dealloc so far named a live block
    wrapped            \* 0, or k when the k-th last call was the first to wrap

vars == <<overflow_checks, cfg, script, start, end, b_pos, p_pos, count,
          op, arg1, arg2, res, ret, live, runs, wellFormed, wrapped>>

Word     == cfg.word                         \* usize values are 0 .. Word-1
MaxUsize == Word - 1
SIZE     == cfg.page                         \* const SIZE: usize, the PAGE_SIZE

\* ------------------------------------------------------- usize arithmetic
RECURSIVE And(_, _)
And(x, y) == IF x = 0 \/ y = 0 THEN 0
             ELSE (x % 2) * (y % 2) + 2 * And(x \div 2, y \div 2)

Not(x)  == MaxUsize - x                    \* !x on a usize
Wrap(x) == x % Word                        \* result of a wrapping operation
Ovf(x)  == x < 0 \/ x > MaxUsize           \* the exact result is no usize

Block(addr, size) == [addr |-> addr, size |-> size]
Run(addr, n)      == [addr |-> addr, n |-> n]

\* the calls of the scenario of the documentation, in their order
Scenario == << <<"init", 4096, 8192>>, <<"alloc", 8, 8>>,
               <<"alloc_pages", 2, 256>>, <<"dealloc", 4096, 8>>,
               <<"alloc", 8192, 1>> >>

\* the scenario's progress after the call o(x1, x2)
Advance(o, x1, x2) ==
    IF script < Len(Scenario) /\ Scenario[script + 1] = <<o, x1, x2>>
    THEN script + 1
    ELSE IF Scenario[1] = <<o, x1, x2>> THEN 1 ELSE 0

\* what every call records, and the fields it leaves behind
Outcome(o, x1, x2, r, rt, b, p, c, w) ==
    /\ op' = o /\ arg1' = x1 /\ arg2' = x2 /\ res' = r /\ ret' = rt
    /\ b_pos' = b /\ p_pos' = p /\ count' = c
    /\ wrapped' = IF wrapped > 0 THEN wrapped + 1 ELSE IF w THEN 1 ELSE 0
    /\ script' = Advance(o, x1, x2)
    /\ UNCHANGED <<overflow_checks, cfg>>

\* a panic halts the kernel; once an operation has wrapped silently the
\* model follows MaxAfterWrap further calls
Running == res # "panic" /\ wrapped <= cfg.after

\* the allocator serves calls once init has set its region
Active == Running /\ op # "new"

\* -------------------------------------------------------------- new, init
new ==
    /\ overflow_checks \in BOOLEAN
    /\ script = 0
    /\ start = 0 /\ end = 0 /\ b_pos = 0 /\ p_pos = 0 /\ count = 0
    /\ op = "new" /\ arg1 = 0 /\ arg2 = 0 /\ res = "none" /\ ret = 0
    /\ live = EmptyBag /\ runs = {} /\ wellFormed = TRUE /\ wrapped = 0

Init ==
    /\ cfg = [word |-> Pow2(WordBits), page |-> DefaultSIZE,
              after |-> MaxAfterWrap]
    /\ new

\* an init that floors the size instead of the end
init_p_pos_floors_size(s, size) == s + (size \div SIZE) * SIZE

\* (self.end / SIZE) * SIZE, with end = start + size
init_p_pos(s, size) == ((s + size) \div SIZE) * SIZE

init(s, size) ==
    /\ Running
    /\ start' = s
    /\ end' = s + size
    /\ op' = "init" /\ arg1' = s /\ arg2' = size /\ res' = "ok" /\ ret' = 0
    /\ b_pos' = s
    /\ p_pos' = init_p_pos(s, size)
    /\ count' = 0
    /\ wrapped' = 0
    /\ script' = Advance("init", s, size)
    /\ UNCHANGED <<overflow_checks, cfg>>
    /\ live' = EmptyBag /\ runs' = {} /\ wellFormed' = TRUE

\* --------------------------------------------------------- ByteAllocator
\* (self.b_pos + align - 1) & !(align - 1), as the release profile computes it
align_up(pos, align) == And(Wrap(pos + align - 1), Not(align - 1))

\* self.p_pos - self.b_pos, as the release profile computes it
available_bytes(p, b) == Wrap(p - b)

\* a rollback that forgets to restore: b_pos stays rounded up
alloc_rollback_keeps_rounded(original_b_pos, rounded) == rounded

\* the value alloc writes back to b_pos before returning NoMemory
alloc_rollback(original_b_pos, rounded) == original_b_pos

alloc(size, align) ==
    LET original_b_pos == b_pos
        rounded  == align_up(b_pos, align)
        avail    == available_bytes(p_pos, rounded)
        newCount == Wrap(count + 1)
        addr     == rounded
        newB     == Wrap(rounded + size)
        w1       == Ovf(b_pos + align)          \* self.b_pos + align
        w2       == w1 \/ Ovf(p_pos - rounded)  \* self.p_pos - self.b_pos
        w3       == w2 \/ Ovf(count + 1)        \* self.count += 1
        w4       == w3 \/ Ovf(rounded + size)   \* self.b_pos += size
        Out(r, rt, b, c, w) ==
            Outcome("alloc", size, align, r, rt, b, p_pos, c, w)
    IN
    /\ Active
    /\ BagCardinality(live) < MaxLive
    /\ UNCHANGED <<start, end, runs, wellFormed>>
    /\ IF overflow_checks /\ w1
       THEN Out("panic", 0, b_pos, count, FALSE) /\ UNCHANGED live
       ELSE IF overflow_checks /\ w2
       THEN Out("panic", 0, rounded, count, FALSE) /\ UNCHANGED live
       ELSE IF avail < size
       THEN Out("NoMemory", 0, alloc_rollback(original_b_pos, rounded),
                count, w2)
            /\ UNCHANGED live
       ELSE IF overflow_checks /\ w3
       THEN Out("panic", 0, rounded, count, FALSE) /\ UNCHANGED live
       ELSE IF overflow_checks /\ w4
       THEN Out("panic", 0, rounded, newCount, FALSE) /\ UNCHANGED live
       ELSE IF addr = 0          \* NonNull::new(0).unwrap()
       THEN Out("panic", 0, newB, newCount, w4) /\ UNCHANGED live
       ELSE Out("ok", addr, newB, newCount, w4)
            /\ live' = live (+) SetToBag({Block(addr, size)})

\* addr < self.start || addr + layout.size() > self.b_pos
dealloc_invalid(addr, sum) == addr < start \/ sum > b_pos

\* a dealloc that only retracts the last block and never drains at count 0
dealloc_b_pos_no_drain(c, sum, size) ==
    IF sum = b_pos THEN Wrap(b_pos - size) ELSE b_pos

\* a dealloc that retracts b_pos whatever block is freed
dealloc_b_pos_always_retract(c, sum, size) ==
    IF c = 0 THEN start ELSE Wrap(b_pos - size)

\* b_pos after a dealloc that passed the check and decremented count to c
dealloc_b_pos(c, sum, size) ==
    IF c = 0 THEN start
    ELSE IF sum = b_pos THEN Wrap(b_pos - size)
    ELSE b_pos

dealloc(addr, size) ==
    LET sum      == Wrap(addr + size)
        newCount == Wrap(count - 1)
        blk      == Block(addr, size)
        w1       == Ovf(addr + size)            \* addr + layout.size()
        w2       == w1 \/ Ovf(count - 1)        \* self.count -= 1
        w3       == w2 \/ (newCount # 0 /\ sum = b_pos /\ Ovf(b_pos - size))
        Out(r, b, c, w) == Outcome("dealloc", addr, size, r, 0, b, p_pos, c, w)
    IN
    /\ Active
    /\ UNCHANGED <<start, end, runs>>
    /\ IF overflow_checks /\ w1
       THEN Out("panic", b_pos, count, FALSE)
       ELSE IF dealloc_invalid(addr, sum)
       THEN Out("panic", b_pos, count, w1)
       ELSE IF overflow_checks /\ w2
       THEN Out("panic", b_pos, count, FALSE)
       ELSE IF overflow_checks /\ w3
       THEN Out("panic", b_pos, newCount, FALSE)
       ELSE Out("ok", dealloc_b_pos(newCount, sum, size), newCount, w3)
    /\ wellFormed' = (wellFormed /\ BagIn(blk, live))
    /\ live' = IF res' = "ok" /\ BagIn(blk, live)
               THEN live (-) SetToBag({blk}) ELSE live

\* a block that breaks dealloc's precondition (the exact sum, no wrapping)
OutOfRange(addr, size) == addr < start \/ addr + size > b_pos

\* the addresses of the out-of-range blocks a caller hands to dealloc
ProbeAddrs == {start - 1, start, b_pos, MaxUsize} \cap (1 .. MaxUsize)

\* --------------------------------------------------------- PageAllocator
\* an align-down that subtracts the mask instead of clearing it
align_down_subtracts(pos, align) == Wrap(pos + Word - (align - 1))

\* self.p_pos &= !(align_pow2 - 1)
align_down(pos, align) == And(pos, Not(align - 1))

\* self.available_bytes() / Self::PAGE_SIZE
available_pages(p, b) == available_bytes(p, b) \div SIZE

\* the fields <<b_pos, p_pos>> alloc_pages leaves when it returns NoMemory
alloc_pages_rollback(original_p_pos, moved) == <<original_p_pos, moved>>

alloc_pages(num_pages, align_pow2) ==
    LET original_p_pos == p_pos
        bytes == Wrap(num_pages * SIZE)
        lower == Wrap(p_pos - bytes)
        moved == align_down(lower, align_pow2)
        avail == available_pages(moved, b_pos)
        back  == alloc_pages_rollback(original_p_pos, moved)
        w1    == Ovf(num_pages * SIZE) \/ Ovf(p_pos - bytes)
        w2    == w1 \/ Ovf(moved - b_pos)       \* self.p_pos - self.b_pos
        Out(r, rt, b, p, w) ==
            Outcome("alloc_pages", num_pages, align_pow2, r, rt, b, p, count, w)
    IN
    /\ Active
    /\ Cardinality(runs) < MaxRuns
    /\ UNCHANGED <<start, end, live, wellFormed>>
    /\ IF overflow_checks /\ w1
       THEN Out("panic", 0, b_pos, p_pos, FALSE) /\ UNCHANGED runs
       ELSE IF overflow_checks /\ w2
       THEN Out("panic", 0, b_pos, moved, FALSE) /\ UNCHANGED runs
       ELSE IF avail < num_pages
       THEN Out("NoMemory", 0, back[1], back[2], w2) /\ UNCHANGED runs
       ELSE Out("ok", moved, b_pos, moved, w2)
            /\ runs' = runs \cup {Run(moved, num_pages)}

\* ------------------------------------------------------------------ system
Next ==
    \/ \E r \in InitRegions : init(r[1], r[2])
    \/ \E size \in LayoutSizes, align \in LayoutAligns : alloc(size, align)
    \/ \E b \in BagToSet(live) : dealloc(b.addr, b.size)
    \/ \E addr \in ProbeAddrs, size \in LayoutSizes :
          OutOfRange(addr, size) /\ dealloc(addr, size)
    \/ \E n \in NumPages, a \in PageAligns : alloc_pages(n, a)

Spec == Init /\ [][Next]_vars

\* the same system followed two calls further after a silent wrap
InitDeep ==
    /\ cfg = [word |-> Pow2(WordBits), page |-> DefaultSIZE,
              after |-> MaxAfterWrap + 2]
    /\ new

SpecDeep == InitDeep /\ [][Next]_vars

\* ------------------------------------------------- the unsupported calls
\* an add_memory that takes the region in: end moves and the call succeeds
add_memory_extends(s, size) ==
    /\ Active
    /\ Outcome("add_memory", s, size, "ok", 0, b_pos, p_pos, count, FALSE)
    /\ end' = s + size
    /\ UNCHANGED <<start, live, runs, wellFormed>>

\* unimplemented!("EarlyAllocator does not support add_memory")
add_memory(s, size) ==
    /\ Active
    /\ Outcome("add_memory", s, size, "panic", 0, b_pos, p_pos, count, FALSE)
    /\ UNCHANGED <<start, end, live, runs, wellFormed>>

\* unimplemented!("EarlyAllocator does not support dealloc_pages")
dealloc_pages(pos, num_pages) ==
    /\ Active
    /\ Outcome("dealloc_pages", pos, num_pages, "panic", 0,
               b_pos, p_pos, count, FALSE)
    /\ UNCHANGED <<start, end, live, runs, wellFormed>>

\* the page addresses a caller hands back: granted runs and the cursor
PagePositions == {r.addr : r \in runs} \cup {p_pos}

NextUnsupported ==
    \/ Next
    \/ \E r \in InitRegions : add_memory(r[1], r[2])
    \/ \E pos \in PagePositions, n \in NumPages : dealloc_pages(pos, n)

SpecUnsupported == Init /\ [][NextUnsupported]_vars

\* ------------------------------------------------------------ scenario
\* EarlyAllocator<0x100> on a 16-bit usize, which holds the region
\* [0x1000, 0x3000)
ScenarioWordBits == 16
ScenarioSIZE     == 256

\* the argument pairs the scenario passes to the operation o
ScenarioArgs(o) ==
    {<<Scenario[i][2], Scenario[i][3]>> :
        i \in {k \in DOMAIN Scenario : Scenario[k][1] = o}}

InitScenario ==
    /\ cfg = [word |-> Pow2(ScenarioWordBits), page |-> ScenarioSIZE,
              after |-> MaxAfterWrap]
    /\ new

\* the scenario's calls, and the grant of a single page, in any order and any
\* number of times
NextScenario ==
    \/ \E r \in ScenarioArgs("init") : init(r[1], r[2])
    \/ \E l \in ScenarioArgs("alloc") : alloc(l[1], l[2])
    \/ \E b \in ScenarioArgs("dealloc") :
          BagIn(Block(b[1], b[2]), live) /\ dealloc(b[1], b[2])
    \/ \E r \in ScenarioArgs("alloc_pages") \cup {<<1, ScenarioSIZE>>} :
          alloc_pages(r[1], r[2])

SpecScenario == InitScenario /\ [][NextScenario]_vars

\* ------------------------------------------------------------- queries
\* self.p_pos - self.start
total_bytes == Wrap(p_pos - start)

\* self.b_pos - self.start
used_bytes == Wrap(b_pos - start)

\* (self.end - self.b_pos) / Self::PAGE_SIZE
total_pages == Wrap(end - b_pos) \div SIZE

\* (self.end - self.p_pos) / Self::PAGE_SIZE
used_pages == Wrap(end - p_pos) \div SIZE

Queries == {"total_bytes", "used_bytes", "available_bytes",
            "total_pages", "used_pages", "available_pages"}

\* the minuend and the subtrahend of the query's unchecked subtraction
Operands(q) ==
    CASE q = "total_bytes"     -> <<p_pos, start>>
      [] q = "used_bytes"      -> <<b_pos, start>>
      [] q = "available_bytes" -> <<p_pos, b_pos>>
      [] q = "total_pages"     -> <<end, b_pos>>
      [] q = "used_pages"      -> <<end, p_pos>>
      [] q = "available_pages" -> <<p_pos, b_pos>>

\* what the query returns when its subtraction does not panic
Value(q) ==
    CASE q = "total_bytes"     -> total_bytes
      [] q = "used_bytes"      -> used_bytes
      [] q = "available_bytes" -> available_bytes(p_pos, b_pos)
      [] q = "total_pages"     -> total_pages
      [] q = "used_pages"      -> used_pages
      [] q = "available_pages" -> available_pages(p_pos, b_pos)

\* a query takes &self: it reads the fields and writes none
query(q) ==
    LET underflow == Operands(q)[1] < Operands(q)[2]
        panics    == overflow_checks /\ underflow
    IN  /\ Active
        /\ op' = q /\ arg1' = 0 /\ arg2' = 0
        /\ res' = IF panics THEN "panic" ELSE "ok"
        /\ ret' = IF panics THEN 0 ELSE Value(q)
        /\ UNCHANGED <<overflow_checks, cfg, script, start, end, b_pos, p_pos,
                       count, live, runs, wellFormed, wrapped>>

NextQueries ==
    \/ Next
    \/ \E q \in Queries : query(q)

SpecQueries == Init /\ [][NextQueries]_vars

\* ---------------------------------------------------------------- claims
\* exact (unbounded) arithmetic the claims are stated in
RoundUp(x, a)   == ((x + a - 1) \div a) * a
RoundDown(x, a) == (x \div a) * a
Max(x, y) == IF x > y THEN x ELSE y
Min(x, y) == IF x < y THEN x ELSE y

Returned == res \in {"ok", "NoMemory"}      \* the last call came back

\* a byte block and a page run have a byte in common
Overlap(b, r) ==
    Max(b.addr, r.addr) < Min(b.addr + b.size, r.addr + r.n * SIZE)

\* C1: after init and any sequence of returning calls,
\* start <= b_pos <= p_pos <= end.
C1_CursorOrder ==
    (wellFormed /\ Returned) =>
        (start <= b_pos /\ b_pos <= p_pos /\ p_pos <= end)

\* C2: under well-formed use no live byte block overlaps a granted page run.
C2_AreasDisjoint ==
    wellFormed =>
        \A b \in BagToSet(live), r \in runs : ~Overlap(b, r)

\* C3: an alloc_pages call that returns NoMemory leaves all five fields as
\* they were before the call.
C3_AllocPagesRollback ==
    [][(op' = "alloc_pages" /\ res' = "NoMemory") =>
           (start' = start /\ end' = end /\ b_pos' = b_pos
            /\ p_pos' = p_pos /\ count' = count)]_vars

\* C4: an alloc call that returns NoMemory leaves all five fields as they
\* were before the call; count is not incremented.
C4_AllocRollback ==
    [][(op' = "alloc" /\ res' = "NoMemory") =>
           (start' = start /\ end' = end /\ b_pos' = b_pos
            /\ p_pos' = p_pos /\ count' = count)]_vars

\* an alloc with align 8 came back NoMemory from an unaligned b_pos, so the
\* rounding had moved b_pos before the rollback
C4_Witness ==
    op = "alloc" /\ res = "NoMemory" /\ arg2 = 8 /\ b_pos % 8 # 0

\* the request alloc(size, align) does not fit below p_pos
AllocDoesNotFit(size, align) == RoundUp(b_pos, align) + size > p_pos

\* the request alloc_pages(n, a) does not fit above b_pos
AllocPagesDoesNotFit(n, a) ==
    p_pos - n * SIZE < b_pos \/ RoundDown(p_pos - n * SIZE, a) < b_pos

\* C5: every alloc or alloc_pages request that does not fit returns
\* NoMemory: it neither aborts nor succeeds.
C5_NoFitIsNoMemory ==
    [][(wellFormed'
        /\ ((op' = "alloc" /\ AllocDoesNotFit(arg1', arg2'))
            \/ (op' = "alloc_pages" /\ AllocPagesDoesNotFit(arg1', arg2'))))
           => res' = "NoMemory"]_vars

\* C6: a successful alloc returns the smallest multiple of align >= the old
\* b_pos, adds one to count, leaves b_pos at the returned address plus size,
\* and the block lies within [start, p_pos).
C6_AllocSuccess ==
    [][(op' = "alloc" /\ res' = "ok" /\ wellFormed') =>
           (/\ ret' = RoundUp(b_pos, arg2')
            /\ count' = count + 1
            /\ b_pos' = ret' + arg1'
            /\ start <= ret'
            /\ ret' + arg1' <= p_pos)]_vars

\* C7: a successful alloc_pages returns the new p_pos, which is the old
\* p_pos less num_pages*SIZE aligned down to align_pow2, and the run lies
\* within [b_pos, old p_pos).
C7_AllocPagesSuccess ==
    [][(op' = "alloc_pages" /\ res' = "ok" /\ wellFormed') =>
           (/\ ret' = p_pos'
            /\ ret' = RoundDown(p_pos - arg1' * SIZE, arg2')
            /\ b_pos <= ret'
            /\ ret' + arg1' * SIZE <= p_pos)]_vars

\* C8: under well-formed use count is the number of live blocks, and a
\* dealloc that brings count to 0 leaves b_pos = start, whichever block
\* was freed last.
C8_DrainResets ==
    /\ (wellFormed /\ Returned) => count = BagCardinality(live)
    /\ (op = "dealloc" /\ res = "ok" /\ count = 0) => b_pos = start

\* the block [7, 10) was freed last, after the block [4, 7) allocated before
\* it: the frees came out of order, and b_pos is back at start
C8_Witness ==
    /\ op = "dealloc" /\ res = "ok" /\ wellFormed /\ live = EmptyBag
    /\ count = 0 /\ b_pos = start /\ start = 4 /\ arg1 = 7 /\ arg2 = 3

\* C9: a dealloc of an in-range block that leaves count above 0 retracts
\* b_pos by size when addr + size = b_pos, and otherwise leaves b_pos
\* alone; count goes down by one and nothing else changes.
C9_RetractOrLeak ==
    [][(op' = "dealloc" /\ res' = "ok" /\ count >= 2
        /\ arg1' >= start /\ arg1' + arg2' <= b_pos) =>
           (/\ count' = count - 1
            /\ p_pos' = p_pos /\ start' = start /\ end' = end
            /\ b_pos' = IF arg1' + arg2' = b_pos THEN b_pos - arg2'
                        ELSE b_pos)]_vars

\* the last block was freed while another stayed live: b_pos is back at
\* the freed block's address
C9_Witness ==
    /\ op = "dealloc" /\ res = "ok" /\ count >= 1 /\ arg2 > 0
    /\ b_pos = arg1 /\ wellFormed

\* C10: a dealloc of a block with addr < start or addr + size > b_pos
\* panics, with count and b_pos as they were.
C10_OutOfRangePanics ==
    [][(op' = "dealloc" /\ (arg1' < start \/ arg1' + arg2' > b_pos)) =>
           (res' = "panic" /\ count' = count /\ b_pos' = b_pos)]_vars

\* C11: add_memory and dealloc_pages never succeed, whatever the arguments
\* and the state, and leave start, end, b_pos, p_pos and count as they were.
C11_UnsupportedFail ==
    [][(op' \in {"add_memory", "dealloc_pages"}) =>
           (res' # "ok" /\ start' = start /\ end' = end /\ b_pos' = b_pos
            /\ p_pos' = p_pos /\ count' = count)]_vars

\* add_memory was refused on an allocator that holds a live block and a
\* granted run
C11_Witness ==
    /\ op = "add_memory" /\ res = "panic"
    /\ live # EmptyBag /\ runs # {}

\* C12 as claimed: after init(start, size), b_pos = start,
\* p_pos = start + floor(size / SIZE) * SIZE and count = 0, for every start.
C12_InitFloorsSize ==
    op = "init" =>
        (b_pos = arg1 /\ p_pos = arg1 + RoundDown(arg2, SIZE) /\ count = 0)

\* C12 as amended: after init(start, size), b_pos = start, count = 0 and
\* p_pos = floor((start + size) / SIZE) * SIZE, which is
\* start + floor(size / SIZE) * SIZE when start is a multiple of SIZE.
C12_InitFloorsEnd ==
    op = "init" =>
        /\ start = arg1 /\ end = arg1 + arg2
        /\ b_pos = arg1 /\ count = 0
        /\ p_pos = RoundDown(arg1 + arg2, SIZE)
        /\ (arg1 % SIZE = 0 => p_pos = arg1 + RoundDown(arg2, SIZE))

\* init ran on a region whose start is no multiple of SIZE
C12_Witness ==
    op = "init" /\ arg1 % SIZE # 0 /\ p_pos # arg1 + RoundDown(arg2, SIZE)

\* C13: no alloc, dealloc or alloc_pages call that comes back leaves p_pos
\* larger than it was before the call.
C13_PPosNeverGrows ==
    [][(op' \in {"alloc", "dealloc", "alloc_pages"} /\ wellFormed'
        /\ res' \in {"ok", "NoMemory"})
           => p_pos' <= p_pos]_vars

\* C14: in every state p_pos is a multiple of SIZE, whatever num_pages and
\* align_pow2 (smaller or larger than SIZE) alloc_pages was given.
C14_PPosPageAligned == p_pos % SIZE = 0

\* alloc_pages with an alignment above SIZE moved p_pos down past the
\* multiple of SIZE that num_pages alone would give
C14_Witness ==
    /\ op = "alloc_pages" /\ res = "ok" /\ arg2 > SIZE
    /\ \E r \in runs : r.addr = p_pos /\ \E q \in runs : q.addr > r.addr + r.n * SIZE

\* C15: in every state a call came back to, count = 0 implies
\* b_pos = start.
C15_EmptyMeansStart ==
    (wellFormed /\ Returned /\ count = 0) => b_pos = start

\* C18: alloc and dealloc never change p_pos, start or end, and alloc_pages
\* never changes b_pos, count, start or end, whether it succeeds or fails.
C18_OwnCursorOnly ==
    [][/\ (op' \in {"alloc", "dealloc"} /\ res' \in {"ok", "NoMemory"})
            => (p_pos' = p_pos /\ start' = start /\ end' = end)
       /\ (op' = "alloc_pages" /\ res' \in {"ok", "NoMemory"})
            => (b_pos' = b_pos /\ count' = count
                /\ start' = start /\ end' = end)]_vars

\* C19: under well-formed use every live block, a zero-size one included,
\* satisfies addr >= start and addr + size <= b_pos, so that its dealloc
\* passes the address check.
C19_LiveBlocksInRange ==
    (wellFormed /\ Returned) =>
        \A b \in BagToSet(live) : b.addr >= start /\ b.addr + b.size <= b_pos

\* two byte blocks have a byte in common
BlocksOverlap(a, b) ==
    Max(a.addr, b.addr) < Min(a.addr + a.size, b.addr + b.size)

Exact(q) ==
    IF q \in {"total_pages", "used_pages", "available_pages"}
    THEN (Operands(q)[1] - Operands(q)[2]) \div SIZE
    ELSE Operands(q)[1] - Operands(q)[2]

\* C16: in every state reached by returning calls under well-formed use, each
\* query returns (no panic), returns the exact difference of its operands (no
\* underflow), and leaves every field as it was.
C16_QueriesTotal ==
    [][(op' \in Queries /\ wellFormed)
        => /\ res' = "ok"
           /\ ret' = Exact(op')
           /\ <<start, end, b_pos, p_pos, count>>'
                = <<start, end, b_pos, p_pos, count>>]_vars

\* C17: after each call of the scenario on the region [0x1000, 0x3000) with
\* PAGE_SIZE 0x100, made in the scenario's order, the allocator is in the
\* state the scenario names: 0x1000 = 4096, 0x1008 = 4104, 0x2E00 = 11776,
\* 0x3000 = 12288.
C17_Scenario ==
    /\ script = 1 => res = "ok" /\ <<b_pos, p_pos, count>> = <<4096, 12288, 0>>
    /\ script = 2 => res = "ok" /\ ret = 4096
                     /\ <<b_pos, p_pos, count>> = <<4104, 12288, 1>>
    /\ script = 3 => res = "ok" /\ ret = 11776
                     /\ <<b_pos, p_pos, count>> = <<4104, 11776, 1>>
    /\ script = 4 => res = "ok" /\ <<b_pos, p_pos, count>> = <<4096, 11776, 0>>
    /\ script = 5 => res = "NoMemory"
                     /\ <<b_pos, p_pos, count>> = <<4096, 11776, 0>>

\* the whole scenario was played, down to the failing alloc(0x2000, 1)
C17_Witness ==
    script = 5 /\ op = "alloc" /\ arg1 = 8192 /\ start = 4096 /\ end = 12288
====
